---------------------------- MODULE Spec2Model ----------------------------
(***************************************************************************)
(* Model of the keypress repository:                                       *)
(*   src/key_reader.py        KeyReader, a non-blocking keypress reader    *)
(*   src/minimum_interval.py  wait_for_enter, a debounced line input       *)
(*                                                                         *)
(* KeyReader is modelled together with the parts of its environment its    *)
(* calls act on: the terminal attributes (termios), the kernel input queue *)
(* of standard input, and the text layer of sys.stdin (decoded characters  *)
(* and undecoded bytes kept by the stream between calls).                  *)
(*                                                                         *)
(* A Python str is a sequence of code points; a read() result is a record  *)
(* [none, s]: None is [none |-> TRUE, s |-> <<>>].                         *)
(***************************************************************************)
EXTENDS Integers, Sequences, FiniteSets, TLC

(* ------------------------------ bounds --------------------------------- *)
MaxPending == 2
MaxArrive == 1
MaxReads == 3
MaxDepth == 1
MaxAttempts == 3
MaxTime == 6

VARIABLES
  platform,       \* sys.platform branch: "posix" or "win32"
  isTTY,          \* standard input is a terminal device
  errors,         \* sys.stdin.errors: "strict" or "surrogateescape"
  termAttrs,      \* attributes of the terminal
  old_settings,   \* self.old_settings: <<>> while the attribute does not exist
  fdBuf,          \* bytes queued on standard input, not yet read by the process
  eof,            \* standard input reached end of file
  decoded_chars,  \* sys.stdin: characters decoded but not yet returned
  decPending,     \* sys.stdin: bytes of an incomplete character kept by the decoder
  rstate,         \* "live", "blocked" (inside sys.stdin.read), "finalised"
  depth,          \* number of with-blocks entered and not left
  exc,            \* exception propagating in the caller, "none" if none
  lastOp,         \* last operation that acted
  lastErr,        \* exception raised by the last KeyReader operation
  lastRead,       \* what the last read() did
  results,        \* values returned by read(), in order
  readStarted,    \* read() was called at least once
  pending0,       \* bytes queued on standard input at the first read()
  disturbed,      \* input arrived, ended or was flushed after the first read()
  budget,         \* bytes that may still arrive
  origAttrs,      \* terminal attributes before the first open()
  snapshot,       \* attributes the terminal had when open() last read them
  isOpen,         \* open() succeeded and close() has not run since
  reopened,       \* open() ran on a reader that was already open
  everChanged,    \* open() left the terminal in a mode other than origAttrs
  readLimit,      \* number of read() calls the caller makes at most
  hasInputTime,   \* hasattr(wait_for_enter, "input_time")
  input_time,     \* wait_for_enter.input_time: <<>> is None, <<t>> a time
  now,            \* time.time()
  wpc,            \* "idle" or "waiting" (inside input(prompt))
  minimum_interval, \* argument of the running call
  prompts,        \* times the prompt was shown in the running call
  linesInCall,    \* lines read by the running call so far
  attemptLimit,   \* number of lines the user enters at most
  timeLimit,      \* time at which the observation ends
  callerIntervals, \* values of minimum_interval the caller passes
  retText,        \* <<text>> returned by the last finished call, <<>> if none
  inputErr,       \* exception raised by the last call
  attemptLog      \* every line read: [t, text, mi, n, returned, value, prompts]

readerVars == <<platform, isTTY, errors, termAttrs, old_settings, fdBuf, eof,
                decoded_chars, decPending, rstate, depth, exc, lastOp, lastErr,
                lastRead, results, readStarted, pending0, disturbed, budget,
                origAttrs, snapshot, isOpen, reopened, everChanged, readLimit>>
inputVars == <<hasInputTime, input_time, now, wpc, minimum_interval, prompts,
               linesInCall, attemptLimit, timeLimit, callerIntervals, retText,
               inputErr, attemptLog>>
vars == <<readerVars, inputVars>>

(* ------------------------- terminal attributes ------------------------- *)
LFlags == {"ECHO", "ICANON", "ISIG"}
VMinValues == {1, 4}
Attrs == [lflag : SUBSET LFlags, vmin : VMinValues]
Cooked == [lflag |-> LFlags, vmin |-> 4]
NoEcho == [lflag |-> {"ICANON", "ISIG"}, vmin |-> 4]
Cbreak == [lflag |-> {"ISIG"}, vmin |-> 1]
InitialModes == {Cooked, NoEcho, Cbreak}

\* tty.setcbreak: clear ECHO and ICANON, VMIN = 1
SetCbreak(a) == [lflag |-> a.lflag \ {"ECHO", "ICANON"}, vmin |-> 1]

\* open(): the value stored in self.old_settings, given the attributes read
OpenSettingsAfterCbreak(a) == <<SetCbreak(a)>>
OpenSettings(a) == <<a>>

\* close(): the attributes of the terminal after tcsetattr(.., old_settings)
CloseAttrsKeep(cur, old) == cur
CloseAttrs(cur, old) == old

(* ------------------------------ decoding ------------------------------- *)
Bytes == {97, 98, 195, 169}
None == [none |-> TRUE, s |-> <<>>]
Str(s) == [none |-> FALSE, s |-> s]

IsAscii(b) == b < 128
IsLead(b) == b >= 194 /\ b <= 223
IsCont(b) == b >= 128 /\ b <= 191
Surrogate(b) == 56320 + b
CodePoint(b1, b2) == (b1 - 192) * 64 + (b2 - 128)

\* incremental UTF-8 decoder of sys.stdin: decode(data, final) under the
\* stream's error handler; rest is the undecoded tail kept for the next call
RECURSIVE Decode(_, _, _)
Decode(data, final, errs) ==
  IF data = <<>> THEN [chars |-> <<>>, rest |-> <<>>, err |-> FALSE]
  ELSE LET b == Head(data)
           Emit(c, n) ==
             LET r == Decode(SubSeq(data, n + 1, Len(data)), final, errs)
             IN [chars |-> <<c>> \o r.chars, rest |-> r.rest, err |-> r.err]
           Invalid == IF errs = "strict"
                      THEN [chars |-> <<>>, rest |-> <<>>, err |-> TRUE]
                      ELSE Emit(Surrogate(b), 1)
       IN IF IsAscii(b) THEN Emit(b, 1)
          ELSE IF IsLead(b)
            THEN IF Len(data) = 1
                   THEN IF final THEN Invalid
                        ELSE [chars |-> <<>>, rest |-> data, err |-> FALSE]
                   ELSE IF IsCont(data[2]) THEN Emit(CodePoint(b, data[2]), 2)
                        ELSE Invalid
            ELSE Invalid

WellFormed(bs) == ~Decode(bs, TRUE, "strict").err
Chars(bs) == Decode(bs, TRUE, "strict").chars

\* sys.stdin.read(1): kind is "value", "raise" or "block"
RECURSIVE TextRead(_, _, _, _, _)
TextRead(dc, dp, buf, eofFlag, errs) ==
  IF dc # <<>>
    THEN [kind |-> "value", value |-> Str(<<Head(dc)>>), dc |-> Tail(dc), dp |-> dp, buf |-> buf]
  ELSE IF buf = <<>> /\ ~eofFlag
    THEN [kind |-> "block", value |-> None, dc |-> dc, dp |-> dp, buf |-> buf]
  ELSE LET d == Decode(dp \o buf, buf = <<>>, errs)
       IN IF d.err
            THEN [kind |-> "raise", value |-> None, dc |-> <<>>, dp |-> dp, buf |-> <<>>]
          ELSE IF d.chars # <<>>
            THEN [kind |-> "value", value |-> Str(<<Head(d.chars)>>),
                  dc |-> Tail(d.chars), dp |-> d.rest, buf |-> <<>>]
          ELSE IF buf = <<>>
            THEN [kind |-> "value", value |-> Str(<<>>), dc |-> <<>>, dp |-> <<>>, buf |-> <<>>]
          ELSE TextRead(<<>>, d.rest, <<>>, eofFlag, errs)

\* read(): readiness check, select with zero timeout or kbhit
Ready(p, buf, eofFlag) == IF p = "win32" THEN buf # <<>> ELSE buf # <<>> \/ eofFlag

\* read() on win32: getch().decode('utf-8') of one byte
GetchDecode(b) == IF IsAscii(b) THEN [kind |-> "value", value |-> Str(<<b>>)]
                  ELSE [kind |-> "raise", value |-> None]

(* ------------------------------ KeyReader ------------------------------ *)
NoRead == [ready |-> FALSE, fetched |-> FALSE, pendingBefore |-> FALSE, value |-> None]

InputInit ==
  /\ hasInputTime = FALSE
  /\ input_time = <<>>
  /\ now = 0
  /\ wpc = "idle"
  /\ minimum_interval = 0
  /\ prompts = 0
  /\ linesInCall = 0
  /\ retText = <<>>
  /\ inputErr = "none"
  /\ attemptLog = <<>>

\* wait_for_enter is not used
InputIdle ==
  /\ InputInit
  /\ attemptLimit = 0
  /\ timeLimit = 0
  /\ callerIntervals = {}

ReaderInitCommon ==
  /\ old_settings = <<>>
  /\ eof = FALSE
  /\ decoded_chars = <<>>
  /\ decPending = <<>>
  /\ rstate = "live"
  /\ depth = 0
  /\ exc = "none"
  /\ lastOp = "init"
  /\ lastErr = "none"
  /\ lastRead = NoRead
  /\ results = <<>>
  /\ readStarted = FALSE
  /\ pending0 = <<>>
  /\ disturbed = FALSE
  /\ origAttrs = termAttrs
  /\ snapshot = <<>>
  /\ isOpen = FALSE
  /\ reopened = FALSE
  /\ everChanged = FALSE

SeqsUpTo(S, n) == UNION {[1..k -> S] : k \in 0..n}

\* the terminal in any mode, little input
InitTerm ==
  /\ platform \in {"posix", "win32"}
  /\ isTTY \in BOOLEAN
  /\ errors = "strict"
  /\ termAttrs \in InitialModes
  /\ fdBuf \in SeqsUpTo(Bytes, 1)
  /\ budget = 1
  /\ readLimit = 1
  /\ ReaderInitCommon
  /\ InputIdle

\* any input pending, the terminal in cooked mode
InitRead ==
  /\ platform \in {"posix", "win32"}
  /\ isTTY \in BOOLEAN
  /\ errors \in {"strict", "surrogateescape"}
  /\ termAttrs = Cooked
  /\ fdBuf \in SeqsUpTo(Bytes, MaxPending)
  /\ budget = MaxArrive
  /\ readLimit = MaxReads
  /\ ReaderInitCommon
  /\ InputIdle

histUnchanged == UNCHANGED <<origAttrs, platform, isTTY, errors, budget, readLimit>>
readUnchanged == UNCHANGED <<fdBuf, eof, decoded_chars, decPending, lastRead,
                             results, readStarted, pending0>>

\* open(), lines 34-38; d is the change of depth made by the caller
OpenBody(op, d) ==
  /\ lastOp' = op
  /\ IF platform = "win32"
       THEN /\ UNCHANGED <<termAttrs, old_settings, fdBuf, snapshot, isOpen,
                           reopened, everChanged, exc, disturbed>>
            /\ lastErr' = "none"
            /\ depth' = depth + d
     ELSE IF ~isTTY
       THEN \* termios.tcgetattr raises termios.error
            /\ UNCHANGED <<termAttrs, old_settings, fdBuf, snapshot, isOpen,
                           reopened, everChanged, depth, disturbed>>
            /\ lastErr' = "termios.error"
            /\ exc' = "termios.error"
     ELSE /\ old_settings' = OpenSettings(termAttrs)
          /\ termAttrs' = SetCbreak(termAttrs)
          /\ fdBuf' = <<>>       \* setcbreak applies with TCSAFLUSH
          /\ disturbed' = (disturbed \/ (readStarted /\ fdBuf # <<>>))
          /\ snapshot' = <<termAttrs>>
          /\ isOpen' = TRUE
          /\ reopened' = (reopened \/ isOpen)
          /\ everChanged' = (everChanged \/ SetCbreak(termAttrs) # origAttrs)
          /\ lastErr' = "none"
          /\ depth' = depth + d
          /\ UNCHANGED exc
  /\ UNCHANGED <<eof, decoded_chars, decPending, lastRead, results, readStarted,
                 pending0, rstate>>
  /\ histUnchanged

Open ==
  /\ rstate = "live" /\ exc = "none"
  /\ OpenBody("open", 0)
  /\ UNCHANGED inputVars

\* __enter__, lines 27-29
Enter ==
  /\ rstate = "live" /\ exc = "none" /\ depth < MaxDepth
  /\ OpenBody("enter", 1)
  /\ UNCHANGED inputVars

\* close(), lines 40-43: e is the exception it raises, "none" if none
CloseErr == IF platform # "win32" /\ old_settings = <<>> THEN "AttributeError" ELSE "none"

CloseBody(op) ==
  /\ lastOp' = op
  /\ lastErr' = CloseErr
  /\ IF platform = "win32" \/ CloseErr # "none"
       THEN UNCHANGED <<termAttrs, isOpen>>
       ELSE /\ termAttrs' = CloseAttrs(termAttrs, old_settings[1])
            /\ isOpen' = FALSE
  /\ UNCHANGED <<old_settings, snapshot, reopened, everChanged, disturbed>>
  /\ readUnchanged
  /\ histUnchanged

Close ==
  /\ rstate = "live" /\ exc = "none"
  /\ CloseBody("close")
  /\ exc' = CloseErr
  /\ UNCHANGED <<rstate, depth>>
  /\ UNCHANGED inputVars

\* __exit__, lines 31-32: runs on normal and on exceptional exit of the block
Exit ==
  /\ rstate = "live" /\ depth > 0
  /\ CloseBody("exit")
  /\ exc' = IF CloseErr # "none" THEN CloseErr ELSE exc
  /\ depth' = depth - 1
  /\ UNCHANGED rstate
  /\ UNCHANGED inputVars

\* __del__, lines 24-25: an exception of close() is reported and dropped
Del ==
  /\ rstate = "live" /\ depth = 0
  /\ CloseBody("del")
  /\ rstate' = "finalised"
  /\ UNCHANGED <<exc, depth>>
  /\ UNCHANGED inputVars

\* the caller handles the propagating exception
Catch ==
  /\ rstate = "live" /\ exc # "none"
  /\ exc' = "none"
  /\ lastOp' = "catch"
  /\ UNCHANGED <<termAttrs, old_settings, rstate, depth, lastErr, snapshot, isOpen,
                 reopened, everChanged, disturbed>>
  /\ readUnchanged
  /\ histUnchanged
  /\ UNCHANGED inputVars

\* the outcome of sys.stdin.read(1) applied to the state
ApplyTextRead(r) ==
  /\ decoded_chars' = r.dc
  /\ decPending' = r.dp
  /\ fdBuf' = r.buf
  /\ IF r.kind = "block"
       THEN /\ rstate' = "blocked"
            /\ UNCHANGED <<results, exc, lastErr>>
     ELSE IF r.kind = "raise"
       THEN /\ rstate' = "live"
            /\ exc' = "UnicodeDecodeError"
            /\ lastErr' = "UnicodeDecodeError"
            /\ UNCHANGED results
     ELSE /\ rstate' = "live"
          /\ results' = Append(results, r.value)
          /\ lastErr' = "none"
          /\ UNCHANGED exc

\* read(), lines 45-55
Read ==
  /\ rstate = "live" /\ exc = "none"
  /\ Len(results) < readLimit
  /\ lastOp' = "read"
  /\ readStarted' = TRUE
  /\ pending0' = IF readStarted THEN pending0 ELSE fdBuf
  /\ LET ready == Ready(platform, fdBuf, eof)
     IN IF ~ready
          THEN /\ results' = Append(results, None)
               /\ lastRead' = [ready |-> FALSE, fetched |-> FALSE,
                               pendingBefore |-> fdBuf # <<>>, value |-> None]
               /\ lastErr' = "none"
               /\ UNCHANGED <<fdBuf, decoded_chars, decPending, rstate, exc>>
        ELSE IF platform = "win32"
          THEN LET g == GetchDecode(Head(fdBuf))
               IN /\ fdBuf' = Tail(fdBuf)
                  /\ lastRead' = [ready |-> TRUE, fetched |-> TRUE,
                                  pendingBefore |-> fdBuf # <<>>, value |-> g.value]
                  /\ IF g.kind = "raise"
                       THEN /\ exc' = "UnicodeDecodeError"
                            /\ lastErr' = "UnicodeDecodeError"
                            /\ UNCHANGED results
                       ELSE /\ results' = Append(results, g.value)
                            /\ lastErr' = "none"
                            /\ UNCHANGED exc
                  /\ UNCHANGED <<decoded_chars, decPending, rstate>>
        ELSE LET r == TextRead(decoded_chars, decPending, fdBuf, eof, errors)
             IN /\ ApplyTextRead(r)
                /\ lastRead' = [ready |-> TRUE, fetched |-> TRUE,
                                pendingBefore |-> fdBuf # <<>>, value |-> r.value]
  /\ UNCHANGED <<termAttrs, old_settings, eof, depth, snapshot, isOpen, reopened,
                 everChanged, disturbed>>
  /\ histUnchanged
  /\ UNCHANGED inputVars

\* sys.stdin.read(1) continues once standard input has data or ended
ReadResume ==
  /\ rstate = "blocked"
  /\ fdBuf # <<>> \/ eof
  /\ LET r == TextRead(decoded_chars, decPending, fdBuf, eof, errors)
     IN /\ ApplyTextRead(r)
        /\ lastRead' = [lastRead EXCEPT !.value = r.value]
  /\ lastOp' = "read"
  /\ UNCHANGED <<termAttrs, old_settings, eof, depth, snapshot, isOpen, reopened,
                 everChanged, disturbed, readStarted, pending0>>
  /\ histUnchanged
  /\ UNCHANGED inputVars

(* ----------------------------- environment ----------------------------- *)
envUnchanged == UNCHANGED <<old_settings, decoded_chars, decPending, rstate, depth,
                            exc, lastErr, lastRead, results, readStarted, pending0,
                            origAttrs, snapshot, isOpen, reopened, everChanged,
                            platform, isTTY, errors, readLimit>>

\* a byte arrives on standard input
Arrive ==
  /\ rstate # "finalised" /\ ~eof
  /\ budget > 0 /\ Len(fdBuf) < MaxPending
  /\ \E b \in Bytes : fdBuf' = Append(fdBuf, b)
  /\ budget' = budget - 1
  /\ disturbed' = (disturbed \/ readStarted)
  /\ lastOp' = "env"
  /\ UNCHANGED <<termAttrs, eof>>
  /\ envUnchanged
  /\ UNCHANGED inputVars

\* standard input ends (the other end of a pipe closes, the terminal hangs up)
EndOfInput ==
  /\ rstate # "finalised" /\ ~eof /\ platform = "posix"
  /\ eof' = TRUE
  /\ disturbed' = TRUE
  /\ lastOp' = "env"
  /\ UNCHANGED <<termAttrs, fdBuf, budget>>
  /\ envUnchanged
  /\ UNCHANGED inputVars

\* another program changes one flag of the terminal (stty)
TermChange ==
  /\ rstate # "finalised" /\ isTTY
  /\ \E f \in LFlags :
       termAttrs' = [termAttrs EXCEPT !.lflag =
                       IF f \in @ THEN @ \ {f} ELSE @ \cup {f}]
  /\ lastOp' = "env"
  /\ UNCHANGED <<fdBuf, eof, budget, disturbed>>
  /\ envUnchanged
  /\ UNCHANGED inputVars

ReaderNext == Open \/ Enter \/ Close \/ Exit \/ Del \/ Catch \/ Read \/ ReadResume
                \/ Arrive \/ EndOfInput

TermNext == ReaderNext \/ TermChange

SpecReader == InitRead /\ [][ReaderNext]_vars
SpecTerm == InitTerm /\ [][ReaderNext]_vars
SpecTermExt == InitTerm /\ [][TermNext]_vars

(* --------------------------- wait_for_enter ---------------------------- *)
\* time is counted in tenths of a second; the default minimum_interval is 0.8
DefaultInterval == 8
ShortInterval == 3
MinIntervals == {ShortInterval, DefaultInterval}
Hello == <<104, 101, 108, 108, 111>>
Texts == {<<>>, Hello}

\* empty lines at 0, 0.2, 0.3 and 1.2
ScenarioTimes == <<0, 2, 3, 12>>

\* line 11: the condition under which the line is returned
ShouldReturnNoFirstRule(previous_time, text, t, mi) ==
  Len(text) > 0 \/ (previous_time # <<>> /\ t - previous_time[1] >= mi)
ShouldReturnStrict(previous_time, text, t, mi) ==
  previous_time = <<>> \/ Len(text) > 0 \/ t - previous_time[1] > mi
ShouldReturnDebounceAll(previous_time, text, t, mi) ==
  previous_time = <<>> \/ t - previous_time[1] >= mi
ShouldReturn(previous_time, text, t, mi) ==
  previous_time = <<>> \/ Len(text) > 0 \/ t - previous_time[1] >= mi

\* line 10: the timestamp kept after an attempt
NewInputTimeOnAccept(previous_time, t, accepted) ==
  IF accepted THEN <<t>> ELSE previous_time
NewInputTime(previous_time, t, accepted) == <<t>>

\* line 12: the value returned for an accepted line
ReturnValueStripped(text) == IF text = <<>> THEN text ELSE Tail(text)
ReturnValue(text) == text

ReaderIdle ==
  /\ platform = "posix"
  /\ isTTY = TRUE
  /\ errors = "strict"
  /\ termAttrs = Cooked
  /\ fdBuf = <<>>
  /\ budget = 0
  /\ readLimit = 0
  /\ ReaderInitCommon

\* a caller passing any interval, a user entering up to MaxAttempts lines
InitInput ==
  /\ ReaderIdle
  /\ InputInit
  /\ attemptLimit = MaxAttempts
  /\ timeLimit = MaxTime
  /\ callerIntervals = MinIntervals

\* a caller using the default interval, over the time of the scenario
InitScenario ==
  /\ ReaderIdle
  /\ InputInit
  /\ attemptLimit = Len(ScenarioTimes)
  /\ timeLimit = ScenarioTimes[Len(ScenarioTimes)]
  /\ callerIntervals = {DefaultInterval}

inputUnchanged == UNCHANGED <<attemptLimit, timeLimit, callerIntervals>>

\* wait_for_enter is called, lines 4-8: up to the first input(prompt)
CallWait ==
  /\ wpc = "idle"
  /\ \E mi \in callerIntervals : minimum_interval' = mi
  /\ hasInputTime' = TRUE
  /\ input_time' = IF hasInputTime THEN input_time ELSE <<>>
  /\ wpc' = "waiting"
  /\ prompts' = 1
  /\ linesInCall' = 0
  /\ inputErr' = "none"
  /\ UNCHANGED <<now, retText, attemptLog>>
  /\ inputUnchanged
  /\ UNCHANGED readerVars

\* input(prompt) returns a line, lines 8-12, and the loop shows the prompt again
Line ==
  /\ wpc = "waiting" /\ Len(attemptLog) < attemptLimit
  /\ \E text \in Texts :
       LET previous_time == input_time
           accepted == ShouldReturn(previous_time, text, now, minimum_interval)
       IN /\ input_time' = NewInputTime(previous_time, now, accepted)
          /\ IF accepted
               THEN /\ wpc' = "idle"
                    /\ retText' = <<ReturnValue(text)>>
                    /\ UNCHANGED prompts
               ELSE /\ prompts' = prompts + 1
                    /\ UNCHANGED <<wpc, retText>>
          /\ attemptLog' = Append(attemptLog,
               [t |-> now, text |-> text, mi |-> minimum_interval,
                n |-> linesInCall + 1,
                returned |-> accepted,
                value |-> IF accepted THEN <<ReturnValue(text)>> ELSE <<>>,
                prompts |-> IF accepted THEN prompts ELSE prompts + 1])
  /\ linesInCall' = linesInCall + 1
  /\ UNCHANGED <<hasInputTime, now, minimum_interval, inputErr>>
  /\ inputUnchanged
  /\ UNCHANGED readerVars

\* input(prompt) raises EOFError, line 8
InputEOF ==
  /\ wpc = "waiting"
  /\ wpc' = "idle"
  /\ inputErr' = "EOFError"
  /\ retText' = <<>>
  /\ UNCHANGED <<hasInputTime, input_time, now, minimum_interval, prompts,
                 linesInCall, attemptLog>>
  /\ inputUnchanged
  /\ UNCHANGED readerVars

\* time passes
Tick ==
  /\ now < timeLimit
  /\ now' = now + 1
  /\ UNCHANGED <<hasInputTime, input_time, wpc, minimum_interval, prompts,
                 linesInCall, retText, inputErr, attemptLog>>
  /\ inputUnchanged
  /\ UNCHANGED readerVars

InputNext == CallWait \/ Line \/ InputEOF \/ Tick

SpecInput == InitInput /\ [][InputNext]_vars
SpecScenario == InitScenario /\ [][InputNext]_vars

(* ------------------------------- claims -------------------------------- *)
CloseOps == {"close", "exit", "del"}

\* C1 as stated: once open() changed the terminal mode, the mode is the
\* original one when the reader has been finalised, whatever was called.
C1_RestoredOnEveryExit ==
  (rstate = "finalised" /\ everChanged) => termAttrs = origAttrs

\* C1 amended: once open() changed the terminal mode, and open() was never
\* called on a reader that was already open, the mode is the original one
\* when the reader has been finalised.
C1_RestoredUnlessReopened ==
  (rstate = "finalised" /\ everChanged /\ ~reopened) => termAttrs = origAttrs

C1_Witness ==
  /\ rstate = "finalised" /\ everChanged /\ ~reopened
  /\ exc = "UnicodeDecodeError"
  /\ termAttrs = origAttrs

\* C2: on POSIX, right after a close() that follows an open(), the terminal
\* attributes are those the most recent open() read, whatever was read or
\* changed on the terminal in between.
C2_CloseRestoresSnapshot ==
  (platform = "posix" /\ lastOp \in CloseOps /\ snapshot # <<>>)
    => termAttrs = snapshot[1]

C2_Witness ==
  /\ platform = "posix" /\ lastOp = "close" /\ snapshot # <<>>
  /\ snapshot[1] # origAttrs /\ snapshot[1] # SetCbreak(origAttrs)
  /\ results # <<>>
  /\ termAttrs = snapshot[1]

\* C3: with a well-formed sequence of characters pending at the first read()
\* and no input arriving, ending or being flushed afterwards, the values
\* read() returned so far are those characters in order, one per call,
\* followed by None only.
Expected(cs, n) == [i \in 1..n |-> IF i <= Len(cs) THEN Str(<<cs[i]>>) ELSE None]

C3_ReadsDrainInOrder ==
  (readStarted /\ ~disturbed /\ ~eof /\ WellFormed(pending0)
     /\ rstate = "live" /\ exc = "none")
    => results = Expected(Chars(pending0), Len(results))

\* C4: read() never blocks; with no input pending it returns None; it
\* fetches a character only after the readiness check reported input.
C4_ReadNeverBlocks ==
  /\ rstate # "blocked"
  /\ (lastOp = "read" /\ lastErr = "none" /\ ~lastRead.pendingBefore)
       => lastRead.value = None
  /\ lastRead.fetched => lastRead.ready

\* C10: on POSIX no close(), __exit__ or __del__ raises, in any lifecycle
\* state, and on a reader never opened it leaves the terminal unchanged.
C10_CloseNeverRaises ==
  [][(platform = "posix" /\ lastOp' \in CloseOps)
       => (lastErr' = "none" /\ (old_settings = <<>> => termAttrs' = termAttrs))]_vars

Entries == 1..Len(attemptLog)
Elapsed(i) == attemptLog[i].t - attemptLog[i - 1].t
\* entries i < j were read by the same call
SameCall(i, j) == attemptLog[j].n - attemptLog[i].n = j - i
CurrentCall == {i \in Entries : i > Len(attemptLog) - linesInCall}

\* C5: the first line ever read, when no timestamp is recorded, is returned
\* at once, empty or not, for every minimum_interval.
C5_FirstLineAccepted ==
  attemptLog # <<>> =>
    /\ attemptLog[1].returned
    /\ attemptLog[1].value = <<attemptLog[1].text>>
    /\ attemptLog[1].prompts = 1

C5_Witness ==
  /\ attemptLog # <<>>
  /\ attemptLog[1].text = <<>> /\ attemptLog[1].mi = DefaultInterval
  /\ retText = <<<<>>>>

\* C6: an empty line read at T1 after an attempt at T0 is returned if and
\* only if T1 - T0 >= minimum_interval; otherwise the prompt is shown once
\* more and the call keeps waiting.
C6_EmptyLineDebounced ==
  \A i \in Entries : (i > 1 /\ attemptLog[i].text = <<>>) =>
    /\ attemptLog[i].returned <=> Elapsed(i) >= attemptLog[i].mi
    /\ ~attemptLog[i].returned =>
         /\ attemptLog[i].prompts = attemptLog[i].n + 1
         /\ (i = Len(attemptLog) /\ i \in CurrentCall /\ inputErr = "none") =>
               wpc = "waiting" /\ prompts = attemptLog[i].prompts

C6_Witness ==
  /\ \E i \in Entries : i > 1 /\ attemptLog[i].text = <<>> /\ attemptLog[i].returned
                          /\ Elapsed(i) = attemptLog[i].mi
  /\ \E i \in Entries : i > 1 /\ attemptLog[i].text = <<>> /\ ~attemptLog[i].returned
                          /\ Elapsed(i) = attemptLog[i].mi - 1

\* C7: a non-empty line is returned by the attempt that read it, whatever
\* time passed since the previous attempt and whatever happened before.
C7_NonEmptyNeverDebounced ==
  \A i \in Entries : attemptLog[i].text # <<>> =>
    /\ attemptLog[i].returned
    /\ attemptLog[i].value = <<attemptLog[i].text>>

C7_Witness ==
  \E i \in Entries : /\ i > 1 /\ attemptLog[i].text = Hello
                     /\ attemptLog[i - 1].text = <<>> /\ ~attemptLog[i - 1].returned
                     /\ Elapsed(i) < attemptLog[i].mi
                     /\ attemptLog[i].returned

\* C8: the recorded timestamp is the time of the last line read, accepted
\* or not; with minimum_interval 0.8 and empty lines at 0, 0.2, 0.3 and 1.2
\* exactly the lines at 0 and 1.2 are returned.
IsScenario ==
  /\ Len(attemptLog) = Len(ScenarioTimes)
  /\ \A i \in Entries : /\ attemptLog[i].t = ScenarioTimes[i]
                        /\ attemptLog[i].text = <<>>
                        /\ attemptLog[i].mi = DefaultInterval

C8_TimestampEveryAttempt ==
  /\ input_time = IF attemptLog = <<>> THEN <<>>
                  ELSE <<attemptLog[Len(attemptLog)].t>>
  /\ IsScenario => \A i \in Entries : attemptLog[i].returned <=> i \in {1, 4}

C8_Witness == IsScenario /\ wpc = "idle" /\ retText = <<<<>>>>

\* C9: a call returns at the first line that satisfies the acceptance rule,
\* with that line's text unchanged, and keeps waiting after every other line.
RuleAccepts(i) ==
  i = 1 \/ attemptLog[i].text # <<>> \/ Elapsed(i) >= attemptLog[i].mi

C9_ReturnsFirstAcceptedLine ==
  /\ \A i \in Entries :
       /\ attemptLog[i].returned <=> RuleAccepts(i)
       /\ attemptLog[i].returned => attemptLog[i].value = <<attemptLog[i].text>>
       /\ \A j \in Entries : (i < j /\ SameCall(i, j)) => ~attemptLog[i].returned
  /\ wpc = "waiting" => \A i \in CurrentCall : ~RuleAccepts(i)
  /\ (wpc = "idle" /\ hasInputTime /\ inputErr = "none") =>
       /\ linesInCall >= 1
       /\ RuleAccepts(Len(attemptLog))
       /\ retText = <<attemptLog[Len(attemptLog)].text>>

C9_Witness ==
  /\ wpc = "idle" /\ inputErr = "none" /\ retText = <<Hello>>
  /\ linesInCall >= 2
  /\ \A i \in CurrentCall : i < Len(attemptLog) =>
       attemptLog[i].text = <<>> /\ ~attemptLog[i].returned

=============================================================================
